---- MODULE Spec2Model ----
(***************************************************************************)
(* A model of dblp.py: the title -> BibTeX pipeline of main(), the         *)
(* candidate selection of choose_hit (curses menu and numbered prompt),    *)
(* the delimiter-aware value scanners, the crossref merge and the          *)
(* renderer.                                                               *)
(*                                                                         *)
(* Text is a sequence of one-character strings and indices into text are   *)
(* Python's (0-based): text[i] in Python is text[i + 1] here.  An optional *)
(* value (str | None) is a sequence of length <= 1: None is << >> and the  *)
(* string s is << s >>.                                                    *)
(***************************************************************************)
EXTENDS Integers, Sequences, FiniteSets, TLC

\* ------------------------------------------------------------------ bounds

\* Longest text handed to the scanners.
MaxTextLen == 4

\* Most candidates the search collaborator returns.
MaxHits == 3

\* Most cursor moves in one menu session.
MaxKeys == 3

\* Most lines read at one numbered prompt.
MaxReads == 2

\* Longest line typed at the numbered prompt.
MaxLineLen == 2

\* Most items of a field mapping handed to the renderer on its own.
MaxFields == 2

\* ------------------------------------------------------- optional values

None == << >>

Some(s) == << s >>

\* Python truthiness of a str | None: neither None nor "".
Truthy(v) == v # None /\ v[1] # << >>

\* ------------------------------------------------------ character classes

\* str.isspace of one character.
IsSpace(c) == c \in {" ", "\t", "\n", "\r"}

UpperCase == <<"A", "B", "C", "D", "E", "F", "G", "H", "I", "J", "K", "L", "M",
               "N", "O", "P", "Q", "R", "S", "T", "U", "V", "W", "X", "Y", "Z">>

LowerCase == <<"a", "b", "c", "d", "e", "f", "g", "h", "i", "j", "k", "l", "m",
               "n", "o", "p", "q", "r", "s", "t", "u", "v", "w", "x", "y", "z">>

\* str.lower of one character.
LowerChar(c) ==
    IF \E k \in 1..Len(UpperCase) : UpperCase[k] = c
    THEN LowerCase[CHOOSE k \in 1..Len(UpperCase) : UpperCase[k] = c]
    ELSE c

\* str.lower.
Lower(s) == [k \in 1..Len(s) |-> LowerChar(s[k])]

RECURSIVE LStrip(_)
LStrip(s) ==
    IF s # << >> /\ IsSpace(Head(s)) THEN LStrip(Tail(s)) ELSE s

RECURSIVE RStrip(_)
RStrip(s) ==
    IF s # << >> /\ IsSpace(s[Len(s)]) THEN RStrip(SubSeq(s, 1, Len(s) - 1)) ELSE s

\* str.strip.
Strip(s) == RStrip(LStrip(s))

\* ---------------------------------------------------------- ValueScanner

\* The loop of _extract_braced_value from index i on, depth and value_chars
\* as the loop holds them.
RECURSIVE BracedLoop(_, _, _, _)
BracedLoop(text, i, depth, value_chars) ==
    IF i >= Len(text) THEN None
    ELSE LET char == text[i + 1] IN
         IF char = "{"
         THEN BracedLoop(text, i + 1, depth + 1, Append(value_chars, char))
         ELSE IF char = "}"
         THEN IF depth = 0
              THEN Some(Strip(value_chars))
              ELSE BracedLoop(text, i + 1, depth - 1, Append(value_chars, char))
         ELSE BracedLoop(text, i + 1, depth, Append(value_chars, char))

\* The loop with the depth test lost: the scan stops at the first "}".
RECURSIVE BracedLoopFlat(_, _, _)
BracedLoopFlat(text, i, value_chars) ==
    IF i >= Len(text) THEN None
    ELSE LET char == text[i + 1] IN
         IF char = "}"
         THEN Some(Strip(value_chars))
         ELSE BracedLoopFlat(text, i + 1, Append(value_chars, char))

\* _extract_braced_value without its depth counter.
ExtractBracedFlat(text, start_index) ==
    IF start_index >= Len(text) \/ text[start_index + 1] # "{"
    THEN None
    ELSE BracedLoopFlat(text, start_index + 1, << >>)

_extract_braced_value(text, start_index) ==
    IF start_index >= Len(text) \/ text[start_index + 1] # "{"
    THEN None
    ELSE BracedLoop(text, start_index + 1, 0, << >>)

\* The loop of _extract_quoted_value with the end of the text taken for the
\* closing quote.
RECURSIVE QuotedLoopPartial(_, _, _)
QuotedLoopPartial(text, i, value_chars) ==
    IF i >= Len(text) THEN Some(Strip(value_chars))
    ELSE LET char == text[i + 1] IN
         IF char = "\"" /\ text[i] # "\\"
         THEN Some(Strip(value_chars))
         ELSE QuotedLoopPartial(text, i + 1, Append(value_chars, char))

\* _extract_quoted_value returning what it has read when the text ends.
ExtractQuotedPartial(text, start_index) ==
    IF start_index >= Len(text) \/ text[start_index + 1] # "\""
    THEN None
    ELSE QuotedLoopPartial(text, start_index + 1, << >>)

\* The loop of _extract_quoted_value from index i on.
RECURSIVE QuotedLoop(_, _, _)
QuotedLoop(text, i, value_chars) ==
    IF i >= Len(text) THEN None
    ELSE LET char == text[i + 1] IN
         IF char = "\"" /\ text[i] # "\\"
         THEN Some(Strip(value_chars))
         ELSE QuotedLoop(text, i + 1, Append(value_chars, char))

_extract_quoted_value(text, start_index) ==
    IF start_index >= Len(text) \/ text[start_index + 1] # "\""
    THEN None
    ELSE QuotedLoop(text, start_index + 1, << >>)

\* --------------------------------------------------------- FieldExtractor

\* The index at which \s* stops when it starts at index i.
RECURSIVE SkipSpace(_, _)
SkipSpace(text, i) ==
    IF i < Len(text) /\ IsSpace(text[i + 1]) THEN SkipSpace(text, i + 1) ELSE i

\* re.IGNORECASE match of the literal name at index p.
NameAt(text, name, p) ==
    /\ p + Len(name) <= Len(text)
    /\ \A k \in 1..Len(name) : LowerChar(text[p + k]) = LowerChar(name[k])

\* The index of the delimiter when name\s*=\s*([{"]) matches at index p, else -1.
DelimiterAt(text, name, p) ==
    IF ~NameAt(text, name, p) THEN -1
    ELSE LET e == SkipSpace(text, p + Len(name)) IN
         IF e >= Len(text) \/ text[e + 1] # "=" THEN -1
         ELSE LET d == SkipSpace(text, e + 1) IN
              IF d < Len(text) /\ text[d + 1] \in {"{", "\""} THEN d ELSE -1

\* pattern.search: the leftmost index at which the pattern matches, else -1.
PatternSearch(text, name) ==
    LET at == {p \in 0..Len(text) : DelimiterAt(text, name, p) >= 0} IN
    IF at = {} THEN -1 ELSE CHOOSE p \in at : \A q \in at : p <= q

extract_field_value(bibtex, field_name) ==
    LET m == PatternSearch(bibtex, field_name) IN
    IF m < 0 THEN None
    ELSE LET start_index == DelimiterAt(bibtex, field_name, m) IN
         IF bibtex[start_index + 1] = "{"
         THEN _extract_braced_value(bibtex, start_index)
         ELSE _extract_quoted_value(bibtex, start_index)

\* ------------------------------------------------------------ dictionaries

\* A dict[str, str | None] is the sequence of its items in insertion order.
Item(name, value) == [name |-> name, value |-> value]

HasKey(d, name) == \E k \in 1..Len(d) : d[k].name = name

\* dict.get(name).
DictGet(d, name) ==
    IF HasKey(d, name)
    THEN d[CHOOSE k \in 1..Len(d) : d[k].name = name].value
    ELSE None

\* d[name] = value: an existing key keeps its place, a new one goes last.
DictSet(d, name, value) ==
    IF HasKey(d, name)
    THEN [k \in 1..Len(d) |-> IF d[k].name = name THEN Item(name, value) ELSE d[k]]
    ELSE Append(d, Item(name, value))

\* ------------------------------------------------------------ field names

FIELD_ORDER ==
    <<"author", "title", "journal", "booktitle", "series",
      "volume", "number", "pages", "year", "doi">>

\* The characters of a field name.
Chars(name) ==
    CASE name = "author" -> <<"a", "u", "t", "h", "o", "r">>
      [] name = "title" -> <<"t", "i", "t", "l", "e">>
      [] name = "journal" -> <<"j", "o", "u", "r", "n", "a", "l">>
      [] name = "booktitle" -> <<"b", "o", "o", "k", "t", "i", "t", "l", "e">>
      [] name = "series" -> <<"s", "e", "r", "i", "e", "s">>
      [] name = "volume" -> <<"v", "o", "l", "u", "m", "e">>
      [] name = "number" -> <<"n", "u", "m", "b", "e", "r">>
      [] name = "pages" -> <<"p", "a", "g", "e", "s">>
      [] name = "year" -> <<"y", "e", "a", "r">>
      [] name = "doi" -> <<"d", "o", "i">>
      [] name = "crossref" -> <<"c", "r", "o", "s", "s", "r", "e", "f">>
      [] name = "note" -> <<"n", "o", "t", "e">>
      [] OTHER -> << >>

\* {name: extract_field_value(bibtex, name) for name in FIELD_ORDER}.
ExtractAll(bibtex) ==
    [k \in 1..Len(FIELD_ORDER) |->
        Item(FIELD_ORDER[k], extract_field_value(bibtex, Chars(FIELD_ORDER[k])))]

\* ------------------------------------------------------ parse_entry_header

Digits == <<"0", "1", "2", "3", "4", "5", "6", "7", "8", "9">>

InSeq(c, s) == \E k \in 1..Len(s) : s[k] = c

\* [A-Za-z0-9_:-]
IsTypeChar(c) ==
    InSeq(c, UpperCase) \/ InSeq(c, LowerCase) \/ InSeq(c, Digits) \/ c \in {"_", ":", "-"}

\* [^,\s]
IsKeyChar(c) == c # "," /\ ~IsSpace(c)

RECURSIVE SkipType(_, _)
SkipType(text, i) ==
    IF i < Len(text) /\ IsTypeChar(text[i + 1]) THEN SkipType(text, i + 1) ELSE i

RECURSIVE SkipKey(_, _)
SkipKey(text, i) ==
    IF i < Len(text) /\ IsKeyChar(text[i + 1]) THEN SkipKey(text, i + 1) ELSE i

\* The groups of @\s*([A-Za-z0-9_:-]+)\s*{\s*([^,\s]+) matched at index p, as
\* <<type, key>>, or << >> when the pattern does not match there.
HeaderAt(text, p) ==
    IF p >= Len(text) \/ text[p + 1] # "@" THEN << >>
    ELSE LET a == SkipSpace(text, p + 1)
             b == SkipType(text, a)
             c == SkipSpace(text, b)
             d == SkipSpace(text, c + 1)
             e == SkipKey(text, d)
         IN  IF b = a \/ c >= Len(text) \/ text[c + 1] # "{" \/ e = d
             THEN << >>
             ELSE <<SubSeq(text, a + 1, b), SubSeq(text, d + 1, e)>>

StartsWith(s, prefix) ==
    Len(prefix) <= Len(s) /\ SubSeq(s, 1, Len(prefix)) = prefix

\* s.split(c, 1)[1] for an s that holds c.
AfterFirst(s, c) ==
    LET k == CHOOSE k \in 1..Len(s) : s[k] = c /\ \A j \in 1..(k - 1) : s[j] # c
    IN  SubSeq(s, k + 1, Len(s))

\* s.rsplit(c, 1)[1] for an s that holds c.
AfterLast(s, c) ==
    LET k == CHOOSE k \in 1..Len(s) : s[k] = c /\ \A j \in (k + 1)..Len(s) : s[j] # c
    IN  SubSeq(s, k + 1, Len(s))

parse_entry_header(bibtex) ==
    LET at == {p \in 0..Len(bibtex) : HeaderAt(bibtex, p) # << >>} IN
    IF at = {}
    THEN <<<<"e", "n", "t", "r", "y">>, <<"u", "n", "k", "n", "o", "w", "n">>>>
    ELSE LET m  == HeaderAt(bibtex, CHOOSE p \in at : \A q \in at : p <= q)
             k1 == IF StartsWith(m[2], <<"D", "B", "L", "P", ":">>)
                   THEN AfterFirst(m[2], ":") ELSE m[2]
             k2 == IF InSeq("/", k1) THEN AfterLast(k1, "/") ELSE k1
         IN  <<m[1], k2>>

\* ---------------------------------------------------------- RecordRenderer

\* re.sub(r"\s+", " ", value): every run of whitespace becomes one space.
RECURSIVE CollapseSpace(_)
CollapseSpace(s) ==
    IF s = << >> THEN << >>
    ELSE IF IsSpace(Head(s))
    THEN <<" ">> \o CollapseSpace(LStrip(s))
    ELSE <<Head(s)>> \o CollapseSpace(Tail(s))

\* max(len(field) for field in FIELD_ORDER).
FieldWidth ==
    CHOOSE w \in {Len(Chars(FIELD_ORDER[k])) : k \in 1..Len(FIELD_ORDER)} :
        \A k \in 1..Len(FIELD_ORDER) : Len(Chars(FIELD_ORDER[k])) <= w

\* f"{name:<{width}}".
PadRight(s, width) ==
    s \o [k \in 1..(IF Len(s) < width THEN width - Len(s) ELSE 0) |-> " "]

\* prefix + value_oneline + "},".
FieldLine(name, value) ==
    <<" ", " ">> \o PadRight(Chars(name), FieldWidth) \o <<" ", "=", " ", "{">>
        \o Strip(CollapseSpace(value)) \o <<"}", ",">>

\* The loop of render_entry over FIELD_ORDER from position k on.
RECURSIVE FieldLines(_, _)
FieldLines(fields, k) ==
    IF k > Len(FIELD_ORDER) THEN << >>
    ELSE LET name  == FIELD_ORDER[k]
             value == DictGet(fields, name)
         IN  IF ~Truthy(value)
             THEN FieldLines(fields, k + 1)
             ELSE <<FieldLine(name, value[1])>> \o FieldLines(fields, k + 1)

\* "\n".join(lines).
RECURSIVE JoinLines(_)
JoinLines(lines) ==
    IF lines = << >> THEN << >>
    ELSE IF Len(lines) = 1 THEN lines[1]
    ELSE lines[1] \o <<"\n">> \o JoinLines(Tail(lines))

\* The loop of render_entry run over the mapping's own items.
RECURSIVE ItemLines(_, _)
ItemLines(fields, k) ==
    IF k > Len(fields) THEN << >>
    ELSE IF ~Truthy(fields[k].value)
    THEN ItemLines(fields, k + 1)
    ELSE <<FieldLine(fields[k].name, fields[k].value[1])>> \o ItemLines(fields, k + 1)

\* render_entry iterating fields.items() instead of FIELD_ORDER.
RenderByMapping(entry_type, entry_key, fields) ==
    JoinLines(<<<<"%">>, <<"@">> \o entry_type \o <<"{">> \o entry_key \o <<",">>>>
              \o ItemLines(fields, 1) \o <<<<"}">>>>)

render_entry(entry_type, entry_key, fields) ==
    JoinLines(<<<<"%">>, <<"@">> \o entry_type \o <<"{">> \o entry_key \o <<",">>>>
              \o FieldLines(fields, 1) \o <<<<"}">>>>)

\* -------------------------------------------------------- JournalNormalizer

\* re.sub of a character class by "".
RECURSIVE Remove(_, _)
Remove(s, class) ==
    IF s = << >> THEN << >>
    ELSE IF Head(s) \in class THEN Remove(Tail(s), class)
    ELSE <<Head(s)>> \o Remove(Tail(s), class)

_normalize_journal_name(value) ==
    Lower(Strip(CollapseSpace(Remove(Remove(value, {"{", "}"}), {".", ",", ":", ";"}))))

AbbrevCommunAcm ==
    <<"c", "o", "m", "m", "u", "n", " ", "a", "c", "m">>

FullCommunAcm ==
    <<"C", "o", "m", "m", "u", "n", "i", "c", "a", "t", "i", "o", "n", "s",
      " ", "o", "f", " ", "t", "h", "e", " ", "A", "C", "M">>

AbbrevJCryptol ==
    <<"j", " ", "c", "r", "y", "p", "t", "o", "l">>

FullJCryptol ==
    <<"J", "o", "u", "r", "n", "a", "l", " ", "o", "f", " ", "C", "r", "y",
      "p", "t", "o", "l", "o", "g", "y">>

expand_journal_name(value) ==
    IF ~Truthy(value) THEN value
    ELSE LET normalized == _normalize_journal_name(value[1]) IN
         IF normalized = AbbrevCommunAcm THEN Some(FullCommunAcm)
         ELSE IF normalized = AbbrevJCryptol THEN Some(FullJCryptol)
         ELSE value

\* --------------------------------------------------------- CrossrefResolver

\* merge_crossref_fields up to its call of fetch_bibtex_entry: whether the
\* call is made.
CrossrefWanted(bibtex, fields) ==
    /\ ~(Truthy(DictGet(fields, "booktitle")) \/ Truthy(DictGet(fields, "series")))
    /\ Truthy(extract_field_value(bibtex, Chars("crossref")))

\* The loop of merge_crossref_fields over (booktitle, series, year).
RECURSIVE FillFrom(_, _, _)
FillFrom(fields, crossref_bibtex, names) ==
    IF names = << >> THEN fields
    ELSE LET name == Head(names)
             next == IF ~Truthy(DictGet(fields, name))
                     THEN DictSet(fields, name,
                                  extract_field_value(crossref_bibtex, Chars(name)))
                     ELSE fields
         IN  FillFrom(next, crossref_bibtex, Tail(names))

\* The loop of merge_crossref_fields without its test of the field.
RECURSIVE Overwrite(_, _, _)
Overwrite(fields, crossref_bibtex, names) ==
    IF names = << >> THEN fields
    ELSE Overwrite(DictSet(fields, Head(names),
                           extract_field_value(crossref_bibtex, Chars(Head(names)))),
                   crossref_bibtex, Tail(names))

\* merge_crossref_fields overwriting booktitle, series and year.
FillOverwrite(fields, crossref_bibtex) ==
    Overwrite(fields, crossref_bibtex, <<"booktitle", "series", "year">>)

FillFromCrossref(fields, crossref_bibtex) ==
    FillFrom(fields, crossref_bibtex, <<"booktitle", "series", "year">>)

\* ---------------------------------------------------------------- records

\* Raw records the retrieval collaborator may return.
RecordArticle ==
    <<"@", "a", "r", "t", "i", "c", "l", "e", "{", "D", "B", "L", "P", ":",
      "j", "o", "u", "r", "n", "a", "l", "s", "/", "c", "a", "c", "m", "/",
      "F", "o", "o", "2", "0", ",", "\n", " ", " ", "a", "u", "t", "h", "o",
      "r", " ", "=", " ", "{", "A", ".", " ", "O", "n", "e", "}", ",", "\n",
      " ", " ", "t", "i", "t", "l", "e", " ", "=", " ", "{", "Z", "e", "r",
      "o", " ", "{", "T", "}", "r", "u", "s", "t", "}", ",", "\n", " ", " ",
      "j", "o", "u", "r", "n", "a", "l", " ", "=", " ", "{", "C", "o", "m",
      "m", "u", "n", ".", " ", "{", "A", "C", "M", "}", "}", ",", "\n", " ",
      " ", "y", "e", "a", "r", " ", "=", " ", "{", "2", "0", "2", "0", "}",
      "\n", "}">>

RecordInproc ==
    <<"@", "i", "n", "p", "r", "o", "c", "e", "e", "d", "i", "n", "g", "s",
      "{", "D", "B", "L", "P", ":", "c", "o", "n", "f", "/", "c", "/", "B",
      "a", "r", "1", "9", ",", "\n", " ", " ", "T", "i", "t", "l", "e", " ",
      "=", " ", "\"", "A", " ", "\\", "\"", "b", "\\", "\"", " ", "c", "\"",
      ",", "\n", " ", " ", "c", "r", "o", "s", "s", "r", "e", "f", " ", "=",
      " ", "{", "c", "o", "n", "f", "/", "c", "/", "2", "0", "1", "9", "}",
      ",", "\n", " ", " ", "p", "a", "g", "e", "s", " ", "=", " ", "{", "1",
      "-", "-", "2", "}", "\n", "}">>

RecordBooktitle ==
    <<"@", "i", "n", "p", "r", "o", "c", "e", "e", "d", "i", "n", "g", "s",
      "{", "x", ",", " ", "b", "o", "o", "k", "t", "i", "t", "l", "e", " ",
      "=", " ", "{", "P", "r", "o", "c", ".", " ", "C", "}", ",", " ", "c",
      "r", "o", "s", "s", "r", "e", "f", " ", "=", " ", "{", "c", "o", "n",
      "f", "/", "c", "/", "2", "0", "1", "9", "}", "}">>

RecordOpen ==
    <<"@", "m", "i", "s", "c", "{", "y", ",", " ", "c", "r", "o", "s", "s",
      "r", "e", "f", " ", "=", " ", "{", "}", ",", " ", "y", "e", "a", "r",
      " ", "=", " ", "{", "2", "0">>

RecordProceedings ==
    <<"@", "p", "r", "o", "c", "e", "e", "d", "i", "n", "g", "s", "{", "D",
      "B", "L", "P", ":", "c", "o", "n", "f", "/", "c", "/", "2", "0", "1",
      "9", ",", "\n", " ", " ", "b", "o", "o", "k", "t", "i", "t", "l", "e",
      " ", "=", " ", "{", "P", "r", "o", "c", ".", " ", "C", "}", ",", "\n",
      " ", " ", "s", "e", "r", "i", "e", "s", " ", "=", " ", "{", "L", "N",
      "C", "S", "}", ",", "\n", " ", " ", "y", "e", "a", "r", " ", "=", " ",
      "{", "2", "0", "1", "9", "}", "\n", "}">>

RecordProceedingsBare ==
    <<"@", "p", "r", "o", "c", "e", "e", "d", "i", "n", "g", "s", "{", "c",
      "o", "n", "f", "/", "c", "/", "2", "0", "1", "9", ",", " ", "p", "u",
      "b", "l", "i", "s", "h", "e", "r", " ", "=", " ", "{", "P", "}", ",",
      " ", "y", "e", "a", "r", " ", "=", " ", "\"", "2", "0", "1", "8", "\"",
      "}">>

\* ----------------------------------------------------- numbered-prompt input

\* Two non-ASCII characters a terminal can send: SUPERSCRIPT TWO (U+00B2), for
\* which str.isdigit holds and int() raises, and ARABIC-INDIC DIGIT TWO
\* (U+0662), a decimal digit of value 2.
Superscript2 == "SUP2"

ArabicIndic2 == "AR2"

\* str.isdigit of one character.
IsDigitChar(c) == InSeq(c, Digits) \/ c \in {Superscript2, ArabicIndic2}

\* str.isdigit.
IsDigit(s) == s # << >> /\ \A k \in 1..Len(s) : IsDigitChar(s[k])

\* The decimal value int() gives one character, -1 when it has none.
DecimalValue(c) ==
    IF InSeq(c, Digits) THEN (CHOOSE k \in 1..Len(Digits) : Digits[k] = c) - 1
    ELSE IF c = ArabicIndic2 THEN 2
    ELSE -1

\* Whether int(s) returns (it raises ValueError otherwise), for an s of digits.
IntParses(s) == \A k \in 1..Len(s) : DecimalValue(s[k]) >= 0

\* int(s).
RECURSIVE IntValue(_)
IntValue(s) ==
    IF s = << >> THEN 0
    ELSE 10 * IntValue(SubSeq(s, 1, Len(s) - 1)) + DecimalValue(s[Len(s)])

\* input(...).strip() without the default.
ChoiceNoDefault(line) == Strip(line)

\* input(...).strip() or "1".
ChoiceOf(line) == IF Strip(line) = << >> THEN <<"1">> ELSE Strip(line)

\* -------------------------------------------------------------------- keys

KEY_DOWN == 258

KEY_UP == 259

KEY_ENTER == 343

PreviousKeys == {KEY_UP, 107}

NextKeys == {KEY_DOWN, 106}

ConfirmKeys == {KEY_ENTER, 10, 13}

CancelKeys == {27, 113, 81}

\* What getch may return: the keys the menu knows, and "x", "1" and -1.
Keys == PreviousKeys \cup NextKeys \cup ConfirmKeys \cup CancelKeys \cup {120, 49, -1}

\* -------------------------------------------------------------------- hits

\* The entry key of the hit of rank i.
KeyOfRank(i) == <<"r", "/", Digits[i + 1]>>

\* A hit is its rank in the search result and its "info" (None when the hit
\* has none), which holds its "key" (None when it has none).
Hit(i, kind) ==
    [rank |-> i,
     info |-> CASE kind = "noinfo"   -> None
                [] kind = "nokey"    -> Some([key |-> None])
                [] kind = "emptykey" -> Some([key |-> Some(<< >>)])
                [] OTHER             -> Some([key |-> Some(KeyOfRank(i))])]

HitKinds == {"noinfo", "nokey", "emptykey", "key"}

HitLists ==
    UNION {{[i \in 1..n |-> Hit(i, f[i])] : f \in [1..n -> HitKinds]} : n \in 0..MaxHits}

\* chosen.get("info", {}).get("key").
KeyOf(hit) == IF hit.info = None THEN None ELSE hit.info[1].key

\* ------------------------------------------------------------------ state

VARIABLES
    hasTitle,         \* len(sys.argv) >= 2
    stdinTty,         \* sys.stdin.isatty()
    stdoutTty,        \* sys.stdout.isatty()
    pc,               \* where the run stands
    hits,             \* find_entry_key: hits
    idx,              \* selector: idx, the cursor
    key,              \* selector: key, the last getch() (-1 before any)
    nNext,            \* history: "next" keys read in this menu session
    nPrev,            \* history: "previous" keys read in this menu session
    lastInput,        \* history: what input() last did: <<"none">> before any
                      \* call, <<"line", line>> or <<"eof">>
    choice,           \* choose_with_numbers: choice
    reads,            \* history: lines read at the numbered prompt
    fellBack,         \* history: curses.error was caught by choose_hit
    chosen,           \* find_entry_key: chosen (None before choose_hit returns)
    outcome,          \* history: how selection ended
    dblp_key,         \* main: key
    bibtex,           \* main: bibtex (None before it is fetched)
    header,           \* main: (entry_type, entry_key) (None before it is parsed)
    fields,           \* main: fields
    crossref_bibtex,  \* merge_crossref_fields: crossref_bibtex
    rendered,         \* what render_entry returned (None before it is called)
    calls,            \* history: calls of the search and retrieval collaborators
    stdout,           \* what was printed to standard output, in order
    stderr,           \* what was printed to standard error, in order
    exitCode,         \* the exit status (None while the run goes on)
    text,             \* scanner harness: text
    start,            \* scanner harness: start_index
    op,               \* harness: the function applied ("none" before)
    result            \* scanner harness: what it returned

envVars == <<hasTitle, stdinTty, stdoutTty>>

menuVars == <<idx, key, nNext, nPrev>>

promptVars == <<lastInput, choice, reads>>

selectVars == <<hits, fellBack, chosen, outcome>>

recordVars == <<dblp_key, bibtex, header, fields, crossref_bibtex, rendered>>

ioVars == <<calls, stdout, stderr, exitCode>>

scanVars == <<text, start, op, result>>

vars == <<envVars, pc, menuVars, promptVars, selectVars, recordVars, ioVars, scanVars>>

\* ---------------------------------------------------------------- messages

UsageMsg == "Usage: python dblp.py \"Paper Title\""

CancelledMsg == "\nSelection cancelled."

NoEntryMsg == "Error: No DBLP entry found for title"

NoKeyMsg == "Error: DBLP response did not include an entry key."

TransportMsg == "Error: <urlopen error>"

IntMsg == "Error: invalid literal for int() with base 10"

PlaceholderMsg == "Error: placeholder too large for max width"

ListMsg == "Multiple entries found. Type the number to select:"

InvalidMsg == "Invalid selection. Try again."

RecordMsg == "record"

\* One call of a collaborator: ok is whether it returned (it raised otherwise).
Call(fn, arg, ok) == [fn |-> fn, arg |-> arg, ok |-> ok]

\* ------------------------------------------------------------------- main

\* The state before main() runs, in every environment.
Init ==
    /\ hasTitle \in BOOLEAN
    /\ stdinTty \in BOOLEAN
    /\ stdoutTty \in BOOLEAN
    /\ pc = "Init"
    /\ hits = << >>
    /\ idx = 0 /\ key = -1 /\ nNext = 0 /\ nPrev = 0
    /\ lastInput = <<"none">> /\ choice = << >> /\ reads = 0
    /\ fellBack = FALSE
    /\ chosen = None
    /\ outcome = "none"
    /\ dblp_key = None /\ bibtex = None /\ header = None /\ fields = << >>
    /\ crossref_bibtex = None /\ rendered = None
    /\ calls = << >> /\ stdout = << >> /\ stderr = << >> /\ exitCode = None
    /\ text = << >> /\ start = 0 /\ op = "none" /\ result = None

\* print(msg, file=sys.stderr); sys.exit(1): the two except clauses of main
\* and its usage check.
Die(msg) ==
    /\ pc' = "exit"
    /\ stderr' = Append(stderr, msg)
    /\ exitCode' = Some(1)

\* main without a title argument.
Usage ==
    /\ pc = "Init"
    /\ ~hasTitle
    /\ Die(UsageMsg)
    /\ UNCHANGED <<envVars, menuVars, promptVars, selectVars, recordVars,
                   calls, stdout, scanVars>>

\* search_hits raises (transport or JSON failure): except Exception in main.
SearchFails ==
    /\ pc = "Init"
    /\ hasTitle
    /\ calls' = Append(calls, Call("search_hits", << >>, FALSE))
    /\ Die(TransportMsg)
    /\ UNCHANGED <<envVars, menuVars, promptVars, selectVars, recordVars,
                   stdout, scanVars>>

\* find_entry_key up to the first input choose_hit waits for: search_hits
\* returns raw_hits, and choose_hit takes its first branch.
Search(raw_hits) ==
    /\ pc = "Init"
    /\ hasTitle
    /\ calls' = Append(calls, Call("search_hits", << >>, TRUE))
    /\ hits' = raw_hits
    /\ IF raw_hits = << >>
       THEN /\ Die(NoEntryMsg)
            /\ UNCHANGED <<chosen, outcome, stdout>>
       ELSE IF Len(raw_hits) = 1
       THEN /\ pc' = "Selected"
            /\ chosen' = Some(raw_hits[1])
            /\ outcome' = "Selected"
            /\ UNCHANGED <<stdout, stderr, exitCode>>
       ELSE IF ~stdinTty \/ ~stdoutTty
       THEN /\ pc' = "NumberedPromptActive"
            /\ stdout' = Append(stdout, ListMsg)
            /\ UNCHANGED <<chosen, outcome, stderr, exitCode>>
       ELSE /\ pc' = "MenuActive"
            /\ UNCHANGED <<chosen, outcome, stdout, stderr, exitCode>>
    /\ UNCHANGED <<envVars, menuVars, promptVars, fellBack, recordVars, scanVars>>

\* ------------------------------------------------------- selector (menu)

\* The cancellation reported without sys.exit(1): the run ends with status 0.
CancelExitZero ==
    /\ outcome' = "Cancelled"
    /\ pc' = "exit"
    /\ stderr' = Append(stderr, CancelledMsg)
    /\ exitCode' = Some(0)

\* raise KeyboardInterrupt inside choose_hit: neither except curses.error nor
\* find_entry_key catches it, except KeyboardInterrupt in main does.
Cancel ==
    /\ outcome' = "Cancelled"
    /\ Die(CancelledMsg)

\* return hits[i] out of choose_hit (i is Python's index).
Select(i) ==
    /\ chosen' = Some(hits[i + 1])
    /\ outcome' = "Selected"
    /\ pc' = "Selected"

\* The previous key with the cursor stopped at the top instead of wrapped.
MenuPreviousClamped(k) ==
    /\ k \in PreviousKeys
    /\ nNext + nPrev < MaxKeys
    /\ idx' = IF idx = 0 THEN 0 ELSE idx - 1
    /\ nPrev' = nPrev + 1
    /\ UNCHANGED <<nNext, pc, chosen, outcome, stderr, exitCode>>

\* key in (curses.KEY_UP, ord("k")).
MenuPrevious(k) ==
    /\ k \in PreviousKeys
    /\ nNext + nPrev < MaxKeys
    /\ idx' = (idx - 1) % Len(hits)
    /\ nPrev' = nPrev + 1
    /\ UNCHANGED <<nNext, pc, chosen, outcome, stderr, exitCode>>

\* key in (curses.KEY_DOWN, ord("j")).
MenuNext(k) ==
    /\ k \in NextKeys
    /\ nNext + nPrev < MaxKeys
    /\ idx' = (idx + 1) % Len(hits)
    /\ nNext' = nNext + 1
    /\ UNCHANGED <<nPrev, pc, chosen, outcome, stderr, exitCode>>

\* key in (curses.KEY_ENTER, ord("\n"), 10, 13).
MenuConfirm(k) ==
    /\ k \in ConfirmKeys
    /\ Select(idx)
    /\ UNCHANGED <<idx, nNext, nPrev, stderr, exitCode>>

\* key in (27, ord("q"), ord("Q")).
MenuCancel(k) ==
    /\ k \in CancelKeys
    /\ Cancel
    /\ UNCHANGED <<idx, nNext, nPrev, chosen>>

\* Any other key: the loop draws and reads again.
MenuIgnore(k) ==
    /\ k \notin PreviousKeys \cup NextKeys \cup ConfirmKeys \cup CancelKeys
    /\ UNCHANGED <<idx, nNext, nPrev, pc, chosen, outcome, stderr, exitCode>>

\* One turn of the selector loop that reads key k.
MenuKey(k) ==
    /\ pc = "MenuActive"
    /\ key' = k
    /\ \/ MenuPrevious(k)
       \/ MenuNext(k)
       \/ MenuConfirm(k)
       \/ MenuCancel(k)
       \/ MenuIgnore(k)
    /\ UNCHANGED <<envVars, promptVars, hits, fellBack, recordVars, calls,
                   stdout, scanVars>>

\* curses raises curses.error (in initscr, curs_set or addstr): curses.wrapper
\* restores the terminal, choose_hit catches it and calls choose_with_numbers,
\* which prints the list.  The selector's frame, its cursor included, is gone.
MenuDisplayError ==
    /\ pc = "MenuActive"
    /\ pc' = "NumberedPromptActive"
    /\ fellBack' = TRUE
    /\ idx' = 0 /\ key' = -1 /\ nNext' = 0 /\ nPrev' = 0
    /\ stdout' = Append(stdout, ListMsg)
    /\ UNCHANGED <<envVars, promptVars, hits, chosen, outcome, recordVars,
                   calls, stderr, exitCode, scanVars>>

\* textwrap.shorten raises ValueError in a window less than 7 columns wide
\* (width - 4 is less than the placeholder's length): it is no curses.error,
\* so it reaches except Exception in main.
MenuPlaceholderError ==
    /\ pc = "MenuActive"
    /\ outcome' = "Error"
    /\ Die(PlaceholderMsg)
    /\ UNCHANGED <<envVars, menuVars, promptVars, hits, fellBack, chosen,
                   recordVars, calls, stdout, scanVars>>

\* ------------------------------------------- choose_with_numbers (prompt)

\* One turn of the loop of choose_with_numbers that reads line.
PromptLine(line) ==
    /\ pc = "NumberedPromptActive"
    /\ reads < MaxReads
    /\ reads' = reads + 1
    /\ lastInput' = <<"line", line>>
    /\ choice' = ChoiceOf(line)
    /\ IF Lower(choice') = <<"q">>
       THEN /\ Cancel
            /\ UNCHANGED <<chosen, stdout>>
       ELSE IF IsDigit(choice') /\ ~IntParses(choice')
       THEN /\ outcome' = "Error"
            /\ Die(IntMsg)
            /\ UNCHANGED <<chosen, stdout>>
       ELSE IF /\ IsDigit(choice')
               /\ 0 <= IntValue(choice') - 1
               /\ IntValue(choice') - 1 < Len(hits)
       THEN /\ Select(IntValue(choice') - 1)
            /\ UNCHANGED <<stdout, stderr, exitCode>>
       ELSE /\ stdout' = Append(stdout, InvalidMsg)
            /\ UNCHANGED <<pc, chosen, outcome, stderr, exitCode>>
    /\ UNCHANGED <<envVars, menuVars, hits, fellBack, recordVars, calls, scanVars>>

\* input() raises EOFError.
PromptEOF ==
    /\ pc = "NumberedPromptActive"
    /\ lastInput' = <<"eof">>
    /\ Select(0)
    /\ UNCHANGED <<envVars, menuVars, choice, reads, hits, fellBack, recordVars,
                   ioVars, scanVars>>

\* ------------------------------------------------- after choose_hit returns

\* find_entry_key without its test of the key.
ReturnKeyUnchecked ==
    /\ pc = "Selected"
    /\ idx' = 0 /\ key' = -1 /\ nNext' = 0 /\ nPrev' = 0
    /\ lastInput' = <<"none">> /\ choice' = << >> /\ reads' = 0
    /\ dblp_key' = KeyOf(chosen[1])
    /\ pc' = "fetch"
    /\ UNCHANGED <<envVars, selectVars, bibtex, header, fields, crossref_bibtex,
                   rendered, ioVars, scanVars>>

\* find_entry_key from the return of choose_hit on.  The frames of choose_hit
\* and of its backends are gone.
ReturnKey ==
    /\ pc = "Selected"
    /\ idx' = 0 /\ key' = -1 /\ nNext' = 0 /\ nPrev' = 0
    /\ lastInput' = <<"none">> /\ choice' = << >> /\ reads' = 0
    /\ IF ~Truthy(KeyOf(chosen[1]))
       THEN /\ Die(NoKeyMsg)
            /\ UNCHANGED dblp_key
       ELSE /\ dblp_key' = KeyOf(chosen[1])
            /\ pc' = "fetch"
            /\ UNCHANGED <<stderr, exitCode>>
    /\ UNCHANGED <<envVars, selectVars, bibtex, header, fields, crossref_bibtex,
                   rendered, calls, stdout, scanVars>>

\* fetch_bibtex_entry(key) raises: except Exception in main.
FetchFails ==
    /\ pc = "fetch"
    /\ calls' = Append(calls, Call("fetch_bibtex_entry", dblp_key[1], FALSE))
    /\ Die(TransportMsg)
    /\ UNCHANGED <<envVars, menuVars, promptVars, selectVars, recordVars,
                   stdout, scanVars>>

\* fetch_bibtex_entry(key) returns record; main parses its header and
\* extracts the fields.
Fetch(record) ==
    /\ pc = "fetch"
    /\ calls' = Append(calls, Call("fetch_bibtex_entry", dblp_key[1], TRUE))
    /\ bibtex' = Some(record)
    /\ header' = Some(parse_entry_header(record))
    /\ fields' = ExtractAll(record)
    /\ pc' = "merge"
    /\ UNCHANGED <<envVars, menuVars, promptVars, selectVars, dblp_key,
                   crossref_bibtex, rendered, stdout, stderr, exitCode, scanVars>>

\* merge_crossref_fields up to its return or to its call of the retrieval
\* collaborator.
MergeStart ==
    /\ pc = "merge"
    /\ pc' = IF CrossrefWanted(bibtex[1], fields) THEN "fetch_crossref" ELSE "render"
    /\ UNCHANGED <<envVars, menuVars, promptVars, selectVars, recordVars,
                   ioVars, scanVars>>

\* fetch_bibtex_entry(crossref) raises: except Exception in
\* merge_crossref_fields returns fields.
CrossrefFails ==
    /\ pc = "fetch_crossref"
    /\ calls' = Append(calls, Call("fetch_bibtex_entry",
                                   extract_field_value(bibtex[1], Chars("crossref"))[1],
                                   FALSE))
    /\ pc' = "render"
    /\ UNCHANGED <<envVars, menuVars, promptVars, selectVars, recordVars,
                   stdout, stderr, exitCode, scanVars>>

\* fetch_bibtex_entry(crossref) returns record.
Crossref(record) ==
    /\ pc = "fetch_crossref"
    /\ calls' = Append(calls, Call("fetch_bibtex_entry",
                                   extract_field_value(bibtex[1], Chars("crossref"))[1],
                                   TRUE))
    /\ crossref_bibtex' = Some(record)
    /\ fields' = FillFromCrossref(fields, record)
    /\ pc' = "render"
    /\ UNCHANGED <<envVars, menuVars, promptVars, selectVars, dblp_key, bibtex,
                   header, rendered, stdout, stderr, exitCode, scanVars>>

\* main from the return of merge_crossref_fields on.
Finish ==
    /\ pc = "render"
    /\ fields' = IF HasKey(fields, "journal")
                 THEN DictSet(fields, "journal",
                              expand_journal_name(DictGet(fields, "journal")))
                 ELSE fields
    /\ rendered' = Some(render_entry(header[1][1], header[1][2], fields'))
    /\ stdout' = Append(stdout, RecordMsg)
    /\ exitCode' = Some(0)
    /\ pc' = "exit"
    /\ UNCHANGED <<envVars, menuVars, promptVars, selectVars, dblp_key, bibtex,
                   header, crossref_bibtex, calls, stderr, scanVars>>

\* Lines the run reads at the prompt: one of every kind.
PromptChars == {" ", "q", "Q", "+", "0", "1", "2", "3", Superscript2, ArabicIndic2}

Lines == UNION {[1..n -> PromptChars] : n \in 0..MaxLineLen}

RunLines == {line \in Lines : Len(line) <= 1}

MainRecords == {RecordArticle, RecordInproc, RecordBooktitle, RecordOpen}

CrossrefRecords == {RecordProceedings, RecordProceedingsBare}

Next ==
    \/ Usage
    \/ SearchFails
    \/ \E raw_hits \in HitLists : Search(raw_hits)
    \/ \E k \in Keys : MenuKey(k)
    \/ MenuDisplayError
    \/ MenuPlaceholderError
    \/ \E line \in RunLines : PromptLine(line)
    \/ PromptEOF
    \/ ReturnKey
    \/ FetchFails
    \/ \E record \in MainRecords : Fetch(record)
    \/ MergeStart
    \/ CrossrefFails
    \/ \E record \in CrossrefRecords : Crossref(record)
    \/ Finish

Spec == Init /\ [][Next]_vars

\* ------------------------------------------------- the numbered prompt alone

\* The run at its first input() of choose_with_numbers, for every candidate
\* list of two or more hits: choose_hit got there directly (a stream is no
\* terminal) or by catching curses.error (both are).  The loop reads neither
\* flag; the lines come through a pipe here.
PromptInit ==
    /\ hasTitle = TRUE
    /\ stdinTty = FALSE
    /\ stdoutTty = TRUE
    /\ pc = "NumberedPromptActive"
    /\ hits \in {[i \in 1..n |-> Hit(i, "key")] : n \in 2..MaxHits}
    /\ idx = 0 /\ key = -1 /\ nNext = 0 /\ nPrev = 0
    /\ lastInput = <<"none">> /\ choice = << >> /\ reads = 0
    /\ fellBack = (stdinTty /\ stdoutTty)
    /\ chosen = None
    /\ outcome = "none"
    /\ dblp_key = None /\ bibtex = None /\ header = None /\ fields = << >>
    /\ crossref_bibtex = None /\ rendered = None
    /\ calls = <<Call("search_hits", << >>, TRUE)>>
    /\ stdout = <<ListMsg>> /\ stderr = << >> /\ exitCode = None
    /\ text = << >> /\ start = 0 /\ op = "none" /\ result = None

PromptNext ==
    \/ \E line \in Lines : PromptLine(line)
    \/ PromptEOF

SpecPrompt == PromptInit /\ [][PromptNext]_vars

\* ------------------------------------------- main from merge_crossref_fields on

FieldValues == {None, Some(<< >>), Some(<<"v">>)}

\* The names whose value the merge or the normalizer reads.
MergeNames == {"journal", "booktitle", "series", "year"}

\* Field sets as main builds them (every name of FIELD_ORDER, in that order);
\* the names the merge never reads are absent or present, the others absent,
\* empty or present.
MergeFieldSets ==
    {[k \in 1..Len(FIELD_ORDER) |-> Item(FIELD_ORDER[k], f[FIELD_ORDER[k]])] :
        f \in {g \in [{FIELD_ORDER[k] : k \in 1..Len(FIELD_ORDER)} -> FieldValues] :
                  \A name \in DOMAIN g : g[name] = Some(<< >>) => name \in MergeNames}}

\* main at its call of merge_crossref_fields, for every field set.
MergeInit ==
    /\ hasTitle = TRUE
    /\ stdinTty = TRUE
    /\ stdoutTty = TRUE
    /\ pc = "merge"
    /\ hits = <<Hit(1, "key")>>
    /\ idx = 0 /\ key = -1 /\ nNext = 0 /\ nPrev = 0
    /\ lastInput = <<"none">> /\ choice = << >> /\ reads = 0
    /\ fellBack = FALSE
    /\ chosen = Some(Hit(1, "key"))
    /\ outcome = "Selected"
    /\ dblp_key = Some(KeyOfRank(1))
    /\ \E record \in MainRecords :
          /\ bibtex = Some(record)
          /\ header = Some(parse_entry_header(record))
    /\ fields \in MergeFieldSets
    /\ crossref_bibtex = None /\ rendered = None
    /\ calls = <<Call("search_hits", << >>, TRUE),
                 Call("fetch_bibtex_entry", KeyOfRank(1), TRUE)>>
    /\ stdout = << >> /\ stderr = << >> /\ exitCode = None
    /\ text = << >> /\ start = 0 /\ op = "none" /\ result = None

MergeNext ==
    \/ MergeStart
    \/ CrossrefFails
    \/ \E record \in CrossrefRecords : Crossref(record)
    \/ Finish

SpecMerge == MergeInit /\ [][MergeNext]_vars

\* ------------------------------------------------------ the scanners alone

ScanChars == {"y", "Y", "=", "{", "}", "\"", "\\", " "}

ScanTexts == UNION {[1..n -> ScanChars] : n \in 0..MaxTextLen}

ScanName == <<"y">>

\* The variables of the run, idle while a function is applied on its own.
RunIdle ==
    /\ hasTitle = TRUE /\ stdinTty = TRUE /\ stdoutTty = TRUE
    /\ pc = "Init"
    /\ hits = << >>
    /\ idx = 0 /\ key = -1 /\ nNext = 0 /\ nPrev = 0
    /\ lastInput = <<"none">> /\ choice = << >> /\ reads = 0
    /\ fellBack = FALSE
    /\ chosen = None
    /\ outcome = "none"
    /\ dblp_key = None /\ bibtex = None /\ crossref_bibtex = None
    /\ calls = << >> /\ stdout = << >> /\ stderr = << >> /\ exitCode = None

ScanInit ==
    /\ RunIdle
    /\ header = None /\ fields = << >> /\ rendered = None
    /\ text \in ScanTexts
    /\ start \in 0..(Len(text) + 1)
    /\ op = "none"
    /\ result = None

\* _extract_braced_value(text, start).
ScanBraced ==
    /\ op = "none"
    /\ op' = "braced"
    /\ result' = _extract_braced_value(text, start)
    /\ UNCHANGED <<envVars, pc, menuVars, promptVars, selectVars, recordVars,
                   ioVars, text, start>>

\* _extract_quoted_value(text, start).
ScanQuoted ==
    /\ op = "none"
    /\ op' = "quoted"
    /\ result' = _extract_quoted_value(text, start)
    /\ UNCHANGED <<envVars, pc, menuVars, promptVars, selectVars, recordVars,
                   ioVars, text, start>>

\* extract_field_value(text, "y").
ScanExtract ==
    /\ op = "none"
    /\ start = 0
    /\ op' = "extract"
    /\ result' = extract_field_value(text, ScanName)
    /\ UNCHANGED <<envVars, pc, menuVars, promptVars, selectVars, recordVars,
                   ioVars, text, start>>

ScanNext == ScanBraced \/ ScanQuoted \/ ScanExtract

SpecScan == ScanInit /\ [][ScanNext]_vars

\* ------------------------------------------------------ the renderer alone

RenderNames == {FIELD_ORDER[k] : k \in 1..Len(FIELD_ORDER)} \cup {"note"}

RenderValues == {None, Some(<< >>), Some(<<"v">>), Some(<<" ", "a", " ", "\n", "b">>)}

\* Mappings of at most MaxFields items, in every insertion order.
RenderMappings ==
    UNION {{d \in [1..n -> [name : RenderNames, value : RenderValues]] :
               \A i, j \in 1..n : d[i].name = d[j].name => i = j} : n \in 0..MaxFields}

RenderInit ==
    /\ RunIdle
    /\ header \in {Some(<<<<"a">>, <<"k">>>>), Some(parse_entry_header(<< >>))}
    /\ fields \in RenderMappings
    /\ rendered = None
    /\ text = << >> /\ start = 0 /\ op = "none" /\ result = None

\* render_entry(entry_type, entry_key, fields).
RenderEntry ==
    /\ op = "none"
    /\ op' = "render"
    /\ rendered' = Some(render_entry(header[1][1], header[1][2], fields))
    /\ UNCHANGED <<envVars, pc, menuVars, promptVars, selectVars, dblp_key, bibtex,
                   header, fields, crossref_bibtex, ioVars, text, start, result>>

RenderNext == RenderEntry

SpecRender == RenderInit /\ [][RenderNext]_vars

\* ------------------------------------------------------------- properties

FetchCalls == {k \in 1..Len(calls) : calls[k].fn = "fetch_bibtex_entry"}

Printed(msg) == \E k \in 1..Len(stdout) : stdout[k] = msg

\* What C1 says of one step: nothing follows a cancellation, and a cancel key
\* or token goes to the exit.
CancelStep ==
    /\ outcome = "Cancelled" => UNCHANGED vars
    /\ (pc = "MenuActive" /\ key' \in CancelKeys) =>
          (outcome' = "Cancelled" /\ pc' = "exit" /\ ~fellBack')
    /\ (pc = "NumberedPromptActive" /\ reads' # reads /\ Strip(lastInput'[2]) = <<"q">>) =>
          (outcome' = "Cancelled" /\ pc' = "exit")

\* C1: a selection that ends in Cancelled (a cancel key in the menu, the cancel
\* token at the numbered prompt, reached directly or by fallback) ends the run
\* with exit code 1 and the cancellation message alone on standard error;
\* nothing was nor will be fetched, extracted or rendered; no step follows;
\* and a cancel key in the menu goes to the exit, never to the numbered prompt.
C1_CancelEndsRun ==
    /\ [](outcome = "Cancelled" =>
            /\ pc = "exit"
            /\ exitCode = Some(1)
            /\ stderr = <<CancelledMsg>>
            /\ FetchCalls = {}
            /\ bibtex = None /\ header = None /\ fields = << >>
            /\ crossref_bibtex = None /\ rendered = None
            /\ ~Printed(RecordMsg))
    /\ [][CancelStep]_vars

\* C1 happens: "q" typed at a numbered prompt reached by fallback.
C1_Witness == outcome = "Cancelled" /\ fellBack /\ lastInput = <<"line", <<"q">>>>

\* C2: the retrieval collaborator is called only when the search returned at
\* least one hit, selection ended in Selected with a hit of that list, and
\* that hit has a non-empty key (the call's argument); zero hits end the run
\* with exit code 1 and the "no entry found" error, selection not entered and
\* nothing retrieved; a selected hit without a key ends it with exit code 1
\* and nothing retrieved.
C2_RetrievalOnlyForSelectedKey ==
    /\ FetchCalls # {} =>
          /\ Len(hits) >= 1
          /\ calls[1] = Call("search_hits", << >>, TRUE)
          /\ outcome = "Selected"
          /\ chosen # None
          /\ \E i \in 1..Len(hits) : chosen[1] = hits[i]
          /\ Truthy(KeyOf(chosen[1]))
          /\ \A k \in FetchCalls : k >= 2
          /\ calls[2].arg = KeyOf(chosen[1])[1]
    /\ (calls = <<Call("search_hits", << >>, TRUE)>> /\ hits = << >>) =>
          /\ pc = "exit"
          /\ exitCode = Some(1)
          /\ stderr = <<NoEntryMsg>>
          /\ outcome = "none"
          /\ chosen = None
    /\ (outcome = "Selected" /\ pc # "Selected" /\ ~Truthy(KeyOf(chosen[1]))) =>
          /\ pc = "exit"
          /\ exitCode = Some(1)
          /\ stderr = <<NoKeyMsg>>
          /\ FetchCalls = {}

\* C2 happens: the main record was fetched for the second of several hits.
C2_Witness ==
    /\ pc = "merge"
    /\ Len(hits) >= 2
    /\ chosen = Some(hits[2])
    /\ calls[Len(calls)] = Call("fetch_bibtex_entry", KeyOfRank(2), TRUE)

\* A line of whitespace only (the empty line included).
Blank(line) == \A k \in 1..Len(line) : IsSpace(line[k])

AsciiDigits == {"0", "1", "2", "3", "4", "5", "6", "7", "8", "9"}

\* A line that is the integer v: ASCII digits, whitespace around them allowed.
IsInteger(line, v) ==
    /\ Strip(line) # << >>
    /\ \A k \in 1..Len(Strip(line)) : Strip(line)[k] \in AsciiDigits
    /\ IntValue(Strip(line)) = v

\* C3: at the numbered prompt with N >= 2 candidates the first input that is
\* not rejected decides: a blank line and end-of-input give Selected(hits[0]),
\* "q" gives Cancelled, a line that is an integer v of 1..N gives
\* Selected(hits[v-1]); a rejected input leaves the prompt active and a
\* deciding one leaves it; the selected hit is the element of the candidate
\* list at that position.
C3_PromptOutcome ==
    LET N == Len(hits) IN
    /\ N >= 2
    /\ \A i \in 1..N : hits[i].rank = i
    /\ (pc = "NumberedPromptActive") = (outcome = "none")
    /\ lastInput[1] = "eof" => (outcome = "Selected" /\ chosen = Some(hits[1]))
    /\ lastInput[1] = "line" =>
          /\ Blank(lastInput[2]) => (outcome = "Selected" /\ chosen = Some(hits[1]))
          /\ Strip(lastInput[2]) = <<"q">> => (outcome = "Cancelled" /\ chosen = None)
          /\ \A v \in 1..N :
                IsInteger(lastInput[2], v) =>
                    /\ outcome = "Selected"
                    /\ chosen = Some(hits[v])
                    /\ chosen[1].rank = v
    /\ outcome = "Selected" =>
          /\ \E i \in 1..N : chosen = Some(hits[i])
          /\ lastInput[1] = "line" => chosen = Some(hits[IntValue(choice)])

\* C3 happens: after a rejected line, " 2" selects the second candidate.
C3_Witness ==
    /\ reads = 2
    /\ lastInput = <<"line", <<" ", "2">>>>
    /\ outcome = "Selected"
    /\ chosen = Some(hits[2])

\* A line that is neither blank, nor the cancel token (in either case), nor an
\* integer of 1..N (in ASCII or in other decimal digits).
InvalidLine(line, N) ==
    /\ ~Blank(line)
    /\ Lower(Strip(line)) # <<"q">>
    /\ ~(/\ \A k \in 1..Len(Strip(line)) : DecimalValue(Strip(line)[k]) >= 0
         /\ IntValue(Strip(line)) \in 1..N)

\* C4: every line read at the numbered prompt that is not blank, not the
\* cancel token and not an integer of 1..N gets the invalid-selection notice
\* and another read, with the same candidates; it never ends the run.
C4_InvalidInputReprompts ==
    (lastInput[1] = "line" /\ InvalidLine(lastInput[2], Len(hits))) =>
        /\ pc = "NumberedPromptActive"
        /\ outcome = "none"
        /\ exitCode = None
        /\ stderr = << >>
        /\ stdout[Len(stdout)] = InvalidMsg

KnownKeys == PreviousKeys \cup NextKeys \cup ConfirmKeys \cup CancelKeys

\* What C5 says of one turn of the menu's loop (key' is the key it read).
CursorStep ==
    pc = "MenuActive" =>
        /\ pc' = "MenuActive" =>
              /\ nNext' = nNext + (IF key' \in NextKeys THEN 1 ELSE 0)
              /\ nPrev' = nPrev + (IF key' \in PreviousKeys THEN 1 ELSE 0)
              /\ key' \notin KnownKeys => idx' = idx
              /\ hits' = hits
        /\ key' \in ConfirmKeys =>
              (outcome' = "Selected" /\ chosen' = Some(hits[idx + 1]) /\ idx' = idx)

\* C5: in the menu with N candidates the cursor is 0 at first and always
\* (next keys - previous keys) mod N, so within 0..N-1 and back at its start
\* after N next (or N previous) keys; a key that is none of next, previous,
\* confirm, cancel leaves it; confirm selects hits[cursor].
C5_CursorCyclic ==
    /\ [](pc = "MenuActive" =>
            /\ Len(hits) >= 2
            /\ idx \in 0..(Len(hits) - 1)
            /\ idx = (nNext - nPrev) % Len(hits)
            /\ (nNext = 0 /\ nPrev = 0) => idx = 0
            /\ (nNext = Len(hits) /\ nPrev = 0) => idx = 0
            /\ (nPrev = Len(hits) /\ nNext = 0) => idx = 0)
    /\ [][CursorStep]_vars

\* C5 happens: three next keys on three candidates bring the cursor back to 0.
C5_Witness ==
    pc = "MenuActive" /\ Len(hits) = 3 /\ nNext = 3 /\ nPrev = 0 /\ idx = 0

\* How many "{" (Opens) and "}" (Closes) t[a..b] holds (Python indices, b
\* excluded).
Opens(t, a, b) == Cardinality({k \in a..(b - 1) : t[k + 1] = "{"})

Closes(t, a, b) == Cardinality({k \in a..(b - 1) : t[k + 1] = "}"})

\* What C6 says of one step of choose_hit.
BackendStep ==
    /\ (pc = "Init" /\ pc' = "Selected") =>
          (Len(hits') = 1 /\ chosen' = Some(hits'[1]) /\ stdout' = stdout)
    /\ (pc = "Init" /\ pc' = "NumberedPromptActive") =>
          (Len(hits') >= 2 /\ (~stdinTty \/ ~stdoutTty))
    /\ (pc = "Init" /\ pc' = "MenuActive") =>
          (Len(hits') >= 2 /\ stdinTty /\ stdoutTty)
    /\ (pc = "MenuActive" /\ pc' = "NumberedPromptActive") =>
          (fellBack' /\ hits' = hits)
    /\ pc = "NumberedPromptActive" => pc' # "MenuActive"

\* C6: the backend is chosen once on leaving Init (one candidate: Selected at
\* once, no backend; a stream that is no terminal: the numbered prompt; else
\* the menu); a display error in the menu moves to the numbered prompt with
\* the same candidates; the prompt never goes back to the menu; and the
\* selection, after a fallback too, ends in Selected or Cancelled.
C6_FallbackSelects ==
    /\ [][BackendStep]_vars
    /\ []((fellBack /\ pc # "NumberedPromptActive") =>
             outcome \in {"Selected", "Cancelled"})

\* Whether t[a..b] (Python indices, b excluded) has as many "}" as "{" and no
\* prefix with more "}" than "{".
Balanced(t, a, b) ==
    /\ Opens(t, a, b) = Closes(t, a, b)
    /\ \A m \in a..b : Closes(t, a, m) <= Opens(t, a, m)

\* The index j of the "}" that closes the "{" at index s.
Closer(t, s, j) ==
    /\ s < j /\ j < Len(t)
    /\ t[j + 1] = "}"
    /\ Balanced(t, s + 1, j)

\* C7: for a text with "{" at the start index, balanced inner braces and then
\* the closing "}", the brace scanner returns the characters strictly between
\* the two, inner braces kept in place, leading and trailing whitespace
\* trimmed, whatever follows the closing brace.
C7_BracedValue ==
    (op = "braced" /\ start < Len(text) /\ text[start + 1] = "{") =>
        \A j \in 0..Len(text) :
            Closer(text, start, j) =>
                result = Some(Strip(SubSeq(text, start + 2, j)))

\* C7 happens: the value holds an inner pair of braces, and they are kept.
C7_Witness ==
    /\ op = "braced"
    /\ \E j \in 0..Len(text) :
          /\ Closer(text, start, j)
          /\ Opens(text, start + 1, j) >= 1
    /\ result # None
    /\ InSeq("{", result[1])

\* An unescaped quote at index j: a quote not right after a backslash.
QuoteEnd(t, s, j) ==
    /\ s < j /\ j < Len(t)
    /\ t[j + 1] = "\""
    /\ t[j] # "\\"

\* C8: a value that is never closed (no "}" at depth 0, no unescaped quote)
\* makes the scanners and extract return absent, never a partial string; so
\* does a start index past the end or not at the opening delimiter.
C8_UnterminatedAbsent ==
    /\ op = "braced" =>
          /\ (start >= Len(text) \/ text[start + 1] # "{") => result = None
          /\ (~\E j \in 0..Len(text) : Closer(text, start, j)) => result = None
    /\ op = "quoted" =>
          /\ (start >= Len(text) \/ text[start + 1] # "\"") => result = None
          /\ (~\E j \in 0..Len(text) : QuoteEnd(text, start, j)) => result = None
    /\ op = "extract" =>
          LET m == PatternSearch(text, ScanName)
              d == DelimiterAt(text, ScanName, m)
          IN  /\ m < 0 => result = None
              /\ (m >= 0 /\ text[d + 1] = "{"
                    /\ ~\E j \in 0..Len(text) : Closer(text, d, j)) => result = None
              /\ (m >= 0 /\ text[d + 1] = "\""
                    /\ ~\E j \in 0..Len(text) : QuoteEnd(text, d, j)) => result = None

\* C8 happens: extract finds the field, its braced value has an inner pair of
\* braces and no closer.
C8_Witness ==
    /\ op = "extract"
    /\ PatternSearch(text, ScanName) >= 0
    /\ text[Len(text)] = "}"
    /\ result = None

\* What C9 says of one step of merge_crossref_fields.
MergeStep ==
    pc \in {"merge", "fetch_crossref"} =>
        /\ \A name \in {fields[k].name : k \in 1..Len(fields)} :
              /\ Truthy(DictGet(fields, name)) =>
                    DictGet(fields', name) = DictGet(fields, name)
              /\ name \notin {"booktitle", "series", "year"} =>
                    DictGet(fields', name) = DictGet(fields, name)
        /\ [k \in 1..Len(fields') |-> fields'[k].name]
              = [k \in 1..Len(fields) |-> fields[k].name]
        /\ calls' # calls =>
              /\ pc = "fetch_crossref"
              /\ ~Truthy(DictGet(fields, "booktitle"))
              /\ ~Truthy(DictGet(fields, "series"))
              /\ Truthy(extract_field_value(bibtex[1], Chars("crossref")))
              /\ calls'[Len(calls')].arg
                    = extract_field_value(bibtex[1], Chars("crossref"))[1]
        /\ (calls' # calls /\ ~calls'[Len(calls')].ok) =>
              (fields' = fields /\ pc' = "render" /\ exitCode' = None)
        /\ pc' \in {"fetch_crossref", "render"}

\* C9: no step of merge_crossref_fields changes a field that is present, nor
\* any field but booktitle, series and year; the crossref record is fetched
\* only when booktitle and series are both absent and the raw text has a
\* non-empty crossref; when the fetch fails the fields stay as they are, and
\* the run goes on to render and exits with code 0.
C9_MergeFrame ==
    /\ [][MergeStep]_vars
    /\ [](pc = "exit" => (exitCode = Some(0) /\ rendered # None /\ Printed(RecordMsg)))

\* C9 happens: the crossref fetch failed, and the run rendered a record that
\* has a year.
C9_Witness ==
    /\ pc = "exit"
    /\ Len(calls) = 3
    /\ ~calls[3].ok
    /\ Truthy(DictGet(fields, "year"))
    /\ Truthy(DictGet(fields, "author"))

\* The lines of a text: str.split("\n").
RECURSIVE SplitLines(_, _)
SplitLines(s, line) ==
    IF s = << >> THEN <<line>>
    ELSE IF Head(s) = "\n" THEN <<line>> \o SplitLines(Tail(s), << >>)
    ELSE SplitLines(Tail(s), Append(line, Head(s)))

\* The field name of an assignment line: what stands between its two leading
\* spaces and the next space or "=".
LineName(line) ==
    LET stop == CHOOSE k \in 3..(Len(line) + 1) :
                    /\ k = Len(line) + 1 \/ line[k] \in {" ", "="}
                    /\ \A j \in 3..(k - 1) : line[j] \notin {" ", "="}
    IN  SubSeq(line, 3, stop - 1)

IsAssignment(line) ==
    /\ Len(line) >= 4
    /\ line[1] = " " /\ line[2] = " "
    /\ \E k \in 3..Len(line) : line[k] = "=" /\ k + 2 <= Len(line) /\ line[k + 2] = "{"
    /\ line[Len(line) - 1] = "}" /\ line[Len(line)] = ","

\* C10: render_entry's text is the "%" line, the "@type{key," header, one
\* assignment line for each name of the fixed order whose value is present and
\* not empty, in that order whatever the mapping's own order, and the "}"
\* line; absent or empty values and names outside the fixed order get no line.
C10_RenderOrder ==
    op = "render" =>
        LET lines   == SplitLines(rendered[1], << >>)
            body    == SubSeq(lines, 3, Len(lines) - 1)
            present == SelectSeq(FIELD_ORDER, LAMBDA name : Truthy(DictGet(fields, name)))
        IN  /\ Len(lines) >= 3
            /\ lines[1] = <<"%">>
            /\ lines[2] = <<"@">> \o header[1][1] \o <<"{">> \o header[1][2] \o <<",">>
            /\ lines[Len(lines)] = <<"}">>
            /\ \A k \in 1..Len(body) : IsAssignment(body[k])
            /\ [k \in 1..Len(body) |-> LineName(body[k])]
                  = [k \in 1..Len(present) |-> Chars(present[k])]

\* C10 happens: a mapping that holds year before author, both present, and
\* the rendered text has author's line before year's.
C10_Witness ==
    /\ op = "render"
    /\ Len(fields) = 2
    /\ fields[1].name = "year" /\ Truthy(fields[1].value)
    /\ fields[2].name = "author" /\ Truthy(fields[2].value)
    /\ LineName(SplitLines(rendered[1], << >>)[3]) = Chars("author")

====
